---- MODULE Spec2Model ----
(***************************************************************************)
(* Frequency-response sweep of src/main.py: a JDS6600 generator is stepped *)
(* down over a frequency range, a LeCroy 9300 scope is queried over RS-232 *)
(* for frequency and amplitude (get_freq / get_ampl with bounded retry),   *)
(* autoset is re-triggered when the signal period drifts (send_query), and *)
(* the two lists are plotted.                                              *)
(*                                                                         *)
(* Python floats are IEEE-754 doubles.  They are modelled bit-exactly for  *)
(* the operations main() performs (1.0 / f, subtraction, abs, division,    *)
(* >= 0.4): a double is a sign, a 53-bit mantissa held in two limbs and a  *)
(* binary exponent, and every operation rounds to nearest, ties to even.   *)
(***************************************************************************)
EXTENDS Integers, Sequences, FiniteSets, TLC

(***************************************************************************)
(* Text: a line is a sequence of one-character strings.                    *)
(***************************************************************************)
\* the element of a one-element set.  An operand that is used more
\* than once is bound first as the element of a one-element set, so that it
\* is computed once however the operator is evaluated
Only(S) == CHOOSE r \in S : TRUE

CR == "\r"

WhiteSpace == {" ", CR, "\t", "\n"}

DigitChars == <<"0", "1", "2", "3", "4", "5", "6", "7", "8", "9">>

IsDigit(c) == \E d \in 1..10 : DigitChars[d] = c

DigitVal(c) == (CHOOSE d \in 1..10 : DigitChars[d] = c) - 1

\* str.strip(): drop leading and trailing whitespace
RECURSIVE LStrip(_)
LStrip(s) ==
    IF s # <<>> /\ Head(s) \in WhiteSpace THEN LStrip(Tail(s)) ELSE s

RECURSIVE RStrip(_)
RStrip(s) ==
    IF s # <<>> /\ s[Len(s)] \in WhiteSpace
    THEN RStrip(SubSeq(s, 1, Len(s) - 1))
    ELSE s

Strip(s) == Only({RStrip(t) : t \in {LStrip(s)}})

\* str.split(','): always at least one field, empty fields are kept
RECURSIVE SplitComma(_, _, _)
SplitComma(s, cur, acc) ==
    IF s = <<>> THEN Append(acc, cur)
    ELSE IF Head(s) = "," THEN SplitComma(Tail(s), <<>>, Append(acc, cur))
    ELSE SplitComma(Tail(s), Append(cur, Head(s)), acc)

\* str.split(): words separated by runs of whitespace, no empty words
RECURSIVE SplitWords(_, _, _)
SplitWords(s, cur, acc) ==
    IF s = <<>> THEN (IF cur = <<>> THEN acc ELSE Append(acc, cur))
    ELSE IF Head(s) \in WhiteSpace
         THEN SplitWords(Tail(s), <<>>, IF cur = <<>> THEN acc ELSE Append(acc, cur))
         ELSE SplitWords(Tail(s), Append(cur, Head(s)), acc)

RECURSIVE DigitsValue(_, _)
DigitsValue(s, acc) ==
    IF s = <<>> THEN acc ELSE DigitsValue(Tail(s), 10 * acc + DigitVal(Head(s)))

AllDigits(s) == s # <<>> /\ \A k \in 1..Len(s) : IsDigit(s[k])

\* float(str) on the literals the scope lines of this model carry: an
\* optional sign followed by decimal digits.  Any other word met here
\* ("HZ", "notanumber", "parameter_value?", ...) is no float literal for
\* Python either and raises ValueError.
IsFloatLiteral(w) ==
    IF w # <<>> /\ Head(w) \in {"-", "+"} THEN AllDigits(Tail(w)) ELSE AllDigits(w)

FloatLiteralValue(w) ==
    IF Head(w) = "-" THEN 0 - DigitsValue(Tail(w), 0)
    ELSE IF Head(w) = "+" THEN DigitsValue(Tail(w), 0)
    ELSE DigitsValue(w, 0)

(***************************************************************************)
(* Wire texts.  Commands are the byte strings main.py writes (without the  *)
(* trailing CR); the response shape is the one parse_frequency documents.  *)
(***************************************************************************)
\* b"parameter_value? freq"
CmdFreq ==
    <<"p", "a", "r", "a", "m", "e", "t", "e", "r", "_", "v", "a", "l", "u",
      "e", "?", " ", "f", "r", "e", "q">>

\* b"parameter_value? ampl"
CmdAmpl ==
    <<"p", "a", "r", "a", "m", "e", "t", "e", "r", "_", "v", "a", "l", "u",
      "e", "?", " ", "a", "m", "p", "l">>

\* "aset"
CmdAset ==
    <<"a", "s", "e", "t">>

CmdText(c) == IF c = "freq" THEN CmdFreq ELSE IF c = "ampl" THEN CmdAmpl ELSE CmdAset

\* "C1:PAVA FREQ," / "C1:PAVA AMPL,"
RespHeadFreq ==
    <<"C", "1", ":", "P", "A", "V", "A", " ", "F", "R", "E", "Q", ",">>

RespHeadAmpl ==
    <<"C", "1", ":", "P", "A", "V", "A", " ", "A", "M", "P", "L", ",">>

\* " HZ,AV" and " V,AV"
RespTailFreq ==
    <<" ", "H", "Z", ",", "A", "V">>

RespTailAmpl ==
    <<" ", "V", ",", "A", "V">>

\* "garbage": a response without any comma
TextGarbage ==
    <<"g", "a", "r", "b", "a", "g", "e">>

\* "notanumber": a value word that is no float literal
WordNotANumber ==
    <<"n", "o", "t", "a", "n", "u", "m", "b", "e", "r">>

\* decimal digits of a natural number, as the scope prints it
RECURSIVE NatChars(_)
NatChars(n) ==
    IF n < 10 THEN <<DigitChars[n + 1]>>
    ELSE Append(NatChars(n \div 10), DigitChars[(n % 10) + 1])

IntChars(v) == IF v < 0 THEN <<"-">> \o NatChars(0 - v) ELSE NatChars(v)

RespHead(c) == IF c = "freq" THEN RespHeadFreq ELSE RespHeadAmpl

RespTail(c) == IF c = "freq" THEN RespTailFreq ELSE RespTailAmpl

\* a well-formed response carrying value v, e.g. "C1:PAVA FREQ,7000 HZ,AV\r"
RespValue(c, v) == RespHead(c) \o IntChars(v) \o RespTail(c) \o <<CR>>

\* "C1:PAVA FREQ,notanumber HZ,AV\r"
RespNotANumber(c) == RespHead(c) \o WordNotANumber \o RespTail(c) \o <<CR>>

\* "C1:PAVA FREQ, ,AV\r": the value field holds no word at all
RespNoWord(c) == RespHead(c) \o <<" ", ",", "A", "V", CR>>

RespGarbage == TextGarbage \o <<CR>>

EchoText(c) == CmdText(c) \o <<CR>>

(***************************************************************************)
(* IEEE-754 double arithmetic.  A mantissa is <<hi, lo>> = hi * 2^27 + lo. *)
(* A normal double has a 53-bit mantissa: 2^25 <= hi < 2^26.               *)
(***************************************************************************)
LimbBase == 2^27

MZero == <<0, 0>>

MGeq(a, b) == a[1] > b[1] \/ (a[1] = b[1] /\ a[2] >= b[2])

MDouble(m) == <<2 * m[1] + ((2 * m[2]) \div LimbBase), (2 * m[2]) % LimbBase>>

MHalf(m) == <<m[1] \div 2, (m[2] \div 2) + (m[1] % 2) * (LimbBase \div 2)>>

MAdd(a, b) ==
    <<a[1] + b[1] + ((a[2] + b[2]) \div LimbBase), (a[2] + b[2]) % LimbBase>>

MSub(a, b) ==
    IF a[2] >= b[2] THEN <<a[1] - b[1], a[2] - b[2]>>
    ELSE <<a[1] - b[1] - 1, a[2] + LimbBase - b[2]>>

MInc(m) == MAdd(m, <<0, 1>>)

MOdd(m) == m[2] % 2 = 1

\* shift right by d bits, or-ing every bit shifted out into the lowest bit;
\* st = <<mantissa, sticky>>
\* eight bits at a time while at least eight are left
MShr8(m) == <<m[1] \div 256, (m[2] \div 256) + (m[1] % 256) * 2^19>>

RECURSIVE ShiftRStickyRec(_, _)
ShiftRStickyRec(st, d) ==
    Only({IF k = 0 \/ t[1] = MZero
          THEN (IF t[2] /\ ~MOdd(t[1]) THEN MInc(t[1]) ELSE t[1])
          ELSE IF k >= 8
          THEN ShiftRStickyRec(<<MShr8(t[1]), t[2] \/ t[1][2] % 256 # 0>>,
                               k - 8)
          ELSE ShiftRStickyRec(<<MHalf(t[1]), t[2] \/ MOdd(t[1])>>, k - 1) :
          t \in {st}, k \in {d}})

ShiftRSticky(m, d) == ShiftRStickyRec(<<m, FALSE>>, d)

\* shift left until the mantissa has `top` as its leading hi-limb bit
\* (eight bits at a time while the result stays below `top`)
MShl8(m) == <<256 * m[1] + (m[2] \div 2^19), (m[2] % 2^19) * 256>>

RECURSIVE NormLeft(_, _, _)
NormLeft(m, e, top) ==
    Only({IF t[1] >= top THEN <<t, k>>
          ELSE IF t[1] < top \div 256 THEN NormLeft(MShl8(t), k - 8, top)
          ELSE NormLeft(MDouble(t), k - 1, top) :
          t \in {m}, k \in {e}})

FZero == [sign |-> 0, m |-> MZero, e |-> 0]

MkFloat(s, m, e) ==
    Only({IF t[1] >= 2^26 THEN [sign |-> s, m |-> MHalf(t), e |-> e + 1]
          ELSE [sign |-> s, m |-> t, e |-> e] : t \in {m}})

\* round a 56-bit value (53 bits + guard, round, sticky) to nearest even
Round3(s, m, e) ==
    Only({LET g == t[2] % 8
              q == MHalf(MHalf(MHalf(t)))
              up == g > 4 \/ (g = 4 /\ MOdd(q))
          IN  MkFloat(s, IF up THEN MInc(q) ELSE q, e + 3) : t \in {m}})

\* float(int): exact for |v| < 2^53
FromInt(v) ==
    IF v = 0 THEN FZero
    ELSE LET a == IF v < 0 THEN 0 - v ELSE v
         IN  Only({[sign |-> IF v < 0 THEN -1 ELSE 1, m |-> n[1], e |-> n[2]] :
                   n \in {NormLeft(<<a \div LimbBase, a % LimbBase>>, 0, 2^25)}})

FNeg(x) == Only({[t EXCEPT !.sign = 0 - t.sign] : t \in {x}})

FAbs(x) == Only({[t EXCEPT !.sign = IF t.sign = 0 THEN 0 ELSE 1] : t \in {x}})

MagGeq(x, y) ==
    IF x.sign = 0 THEN y.sign = 0
    ELSE IF y.sign = 0 THEN TRUE
    ELSE x.e > y.e \/ (x.e = y.e /\ MGeq(x.m, y.m))

\* |x| - |y| for |x| >= |y| > 0, carrying sign s
SubMag(s, x, y) ==
    Only({IF D = MZero THEN FZero
          ELSE Only({Round3(s, n[1], n[2]) :
                     n \in {NormLeft(D, x.e - 3, 2^28)}}) :
          D \in {MSub(MDouble(MDouble(MDouble(x.m))),
                      ShiftRSticky(MDouble(MDouble(MDouble(y.m))), x.e - y.e))}})

\* |x| + |y| for |x| >= |y| > 0, carrying sign s
AddMag(s, x, y) ==
    Only({IF S[1] >= 2^29
          THEN Round3(s, ShiftRSticky(S, 1), x.e - 2)
          ELSE Round3(s, S, x.e - 3) :
          S \in {MAdd(MDouble(MDouble(MDouble(x.m))),
                      ShiftRSticky(MDouble(MDouble(MDouble(y.m))), x.e - y.e))}})

\* x + y
FAdd(x, y) ==
    Only({IF a.sign = 0 THEN b
          ELSE IF b.sign = 0 THEN a
          ELSE IF a.sign = b.sign
               THEN (IF MagGeq(a, b) THEN AddMag(a.sign, a, b)
                     ELSE AddMag(a.sign, b, a))
               ELSE (IF MagGeq(a, b) THEN SubMag(a.sign, a, b)
                     ELSE SubMag(b.sign, b, a)) :
          a \in {x}, b \in {y}})

\* x - y
FSub(x, y) == FAdd(x, FNeg(y))

\* binary long division: `n` more quotient bits; st = <<quotient, remainder>>
\* one quotient bit
DivBit(st, d) ==
    Only({IF MGeq(MDouble(t[2]), d)
          THEN <<MInc(MDouble(t[1])), MSub(MDouble(t[2]), d)>>
          ELSE <<MDouble(t[1]), MDouble(t[2])>> : t \in {st}})

DivBit8(st, d) ==
    DivBit(DivBit(DivBit(DivBit(DivBit(DivBit(DivBit(DivBit(st, d), d), d),
                                       d), d), d), d), d)

RECURSIVE DivBits(_, _, _)
DivBits(st, d, n) ==
    IF n = 0 THEN st
    ELSE Only({DivBits(t, d, IF n >= 8 THEN n - 8 ELSE n - 1) :
               t \in {IF n >= 8 THEN DivBit8(st, d) ELSE DivBit(st, d)}})

\* x / y for y # 0 (the caller raises ZeroDivisionError for y = 0)
FDivBound(a, b) ==
    LET big == MGeq(a.m, b.m)
        e == a.e - b.e - (IF big THEN 52 ELSE 53)
    IN  Only({LET q == qr[1]
                  r2 == MDouble(qr[2])
                  up == (r2 # b.m /\ MGeq(r2, b.m)) \/ (r2 = b.m /\ MOdd(q))
              IN  MkFloat(a.sign * b.sign, IF up THEN MInc(q) ELSE q, e) :
              qr \in {IF big
                      THEN DivBits(<<<<0, 1>>, MSub(a.m, b.m)>>, b.m, 52)
                      ELSE DivBits(<<MZero, a.m>>, b.m, 53)}})

FDiv(x, y) ==
    Only({IF a.sign = 0 THEN FZero ELSE FDivBound(a, b) : a \in {x}, b \in {y}})

\* x >= y
FGeq(x, y) ==
    LET d == FSub(x, y) IN d.sign >= 0

(***************************************************************************)
(* parse_frequency (main.py 9-28).  The result is the returned float (an   *)
(* integer value here) or the exception the function raises.               *)
(***************************************************************************)
ParseOk(v) == [kind |-> "ok", val |-> v]

ParseRaise(exc) == [kind |-> exc, val |-> 0]

\* lines 24-27, for the second comma field
ParseValue(field) ==
    Only({IF words = <<>> THEN ParseRaise("IndexError")
          ELSE IF ~IsFloatLiteral(words[1]) THEN ParseRaise("ValueError")
          ELSE ParseOk(FloatLiteralValue(words[1])) :
          words \in {SplitWords(field, <<>>, <<>>)}})

parse_frequency(response) ==
    Only({IF Len(parts) < 2 THEN ParseRaise("ValueError")
          ELSE ParseValue(parts[2]) :
          parts \in {SplitComma(response, <<>>, <<>>)}})

(***************************************************************************)
(* Bounds of the model and the configurations it runs.                     *)
(***************************************************************************)
\* largest retries argument a run is started with
MaxRetries == 3

\* most lines in flight or buffered on the serial input at any time
MaxBuf == 2

\* retries=3 default of get_freq / get_ampl, used by main()
DefaultRetries == 3

\* main(): min_freq, max_freq, step
MainSweep == [min_freq |-> 1000, max_freq |-> 10000, step |-> 100]

\* a short sweep on which the scope is left free to misbehave
ShortSweep == [min_freq |-> 5000, max_freq |-> 7000, step |-> 1000]

\* values a free scope may report as frequency / amplitude
FreqReadings == {0, -5000, 4900, 5000}

AmplReadings == {2}

\* the run configurations: main() as written against a scope that measures
\* the generator's frequency and answers at once when it answers (it may
\* stay silent or send a malformed line), and the short sweep for every
\* retries argument against a scope that may also answer late and report
\* any of the readings above
Configs ==
    {[sweep |-> MainSweep, retries |-> DefaultRetries, scope |-> "faithful"]}
    \cup {[sweep |-> ShortSweep, retries |-> r, scope |-> "free"] :
            r \in -1..MaxRetries}

\* a call that has neither returned nor raised
NoOut == [kind |-> "none", val |-> 0, exc |-> "none", cause |-> "none"]

\* one of the two side-by-side calls: position, loop variable, reads
\* taken from the feed so far, serial calls and sleeps so far, outcome
Call(p) == [pc |-> p, attempt |-> 0, pos |-> 0, log |-> <<>>, out |-> NoOut]

\* main() runs no side-by-side pair
NoTwin ==
    [feed |-> <<>>, turn |-> "none", fq |-> Call("off"), am |-> Call("off")]

\* what read_until returns when the port timeout expires: b""
NoLine == [text |-> <<>>, part |-> "none", cmd |-> "none", call |-> 0, att |-> 0]

VARIABLES
    cfg,          \* the configuration of this run (never changes)
    pc,           \* position of main()
    i,            \* loop variable of the sweep
    fgLog,        \* every value passed to fg.set_frequency, in order
    freq, ampl,   \* the two result lists
    f,            \* the frequency measured in the current step
    last_period,  \* reference period (a double)
    ref_freq,     \* history: the frequency last_period is the period of
    caller,       \* which send_query("aset") call site is running
    q,            \* the query in progress: "freq", "ampl" or "none"
    attempt,      \* loop variable of the retry loop
    ioLog,        \* serial operations and sleeps of the current call
    rx,           \* what the latest read_until of the current call returned
    wire,         \* lines the scope has sent that have not arrived yet
    inbuf,        \* lines in the serial input buffer
    asets,        \* number of "aset" commands written
    stepLog,      \* events of the current sweep step
    err,          \* the exception that ended the run, or "none"
    cause,        \* __cause__ of that exception
    plotted,      \* the data handed to plt.plot, or <<>>
    triggered,    \* history: steps whose drift check fired
    tx,           \* the bytes of the latest serial.write
    ret,          \* what the send_query call in progress returned
    twin          \* get_freq and get_ampl run side by side on one feed

vars == <<cfg, pc, i, fgLog, freq, ampl, f, last_period, ref_freq, caller, q,
          attempt, ioLog, rx, wire, inbuf, asets, stepLog, err, cause, plotted,
          triggered, tx, ret, twin>>

min_freq == cfg.sweep.min_freq

max_freq == cfg.sweep.max_freq

step == cfg.sweep.step

retries == cfg.retries

\* the state of main() before its first statement
MainStart ==
    /\ pc = "start"
    /\ i = 0
    /\ fgLog = <<>>
    /\ freq = <<>>
    /\ ampl = <<>>
    /\ f = 0
    /\ last_period = FZero
    /\ ref_freq = 0
    /\ caller = "none"
    /\ q = "none"
    /\ attempt = 0
    /\ ioLog = <<>>
    /\ rx = NoLine
    /\ wire = <<>>
    /\ inbuf = <<>>
    /\ asets = 0
    /\ stepLog = <<>>
    /\ err = "none"
    /\ cause = "none"
    /\ plotted = <<>>
    /\ triggered = 0
    /\ tx = <<>>
    /\ ret = <<>>
    /\ tx = <<>>

Init ==
    /\ cfg \in Configs
    /\ MainStart
    /\ twin = NoTwin

(***************************************************************************)
(* The scope and the serial line.  A line carries its text and, as a tag,  *)
(* the write that caused it.                                               *)
(***************************************************************************)
Line(t, p, c) ==
    [text |-> t, part |-> p, cmd |-> c,
     call |-> IF c = "aset" THEN asets ELSE Len(freq) + Len(ampl),
     att |-> attempt]

\* the frequency the generator is set to
GenFreq == fgLog[Len(fgLog)]

\* amplitude the device under test shows at generator frequency g
TrueAmpl(g) == 1 + (g \div 1000)

\* the values the scope may report for parameter c
Readings(c) ==
    IF cfg.scope = "faithful"
    THEN (IF c = "freq" THEN {GenFreq} ELSE {TrueAmpl(GenFreq)})
    ELSE (IF c = "freq" THEN FreqReadings ELSE AmplReadings)

ResponseTexts(c) ==
    IF c = "aset" THEN {}
    ELSE {RespValue(c, v) : v \in Readings(c)}
         \cup {RespNotANumber(c), RespNoWord(c), RespGarbage}

\* what the scope sends back for command c: nothing, the echo, or the echo
\* and a response line
ScopeReplies(c) ==
    LET echo == Line(EchoText(c), "echo", c)
        full == {<<echo, Line(t, "resp", c)>> : t \in ResponseTexts(c)}
        all == {<<>>, <<echo>>} \cup full
    IN  {r \in all : r = <<>> \/ Len(wire) + Len(inbuf) + Len(r) <= MaxBuf}

\* how many in-flight lines arrive before the current serial call returns
Arrivals == IF cfg.scope = "faithful" THEN {Len(wire)} ELSE 0..Len(wire)

\* serial.read_until(b'\r') after k arrivals: the first buffered line, or
\* nothing when the port timeout expires on an empty buffer
ReadUntil(k) ==
    LET ib == inbuf \o SubSeq(wire, 1, k)
    IN  [line |-> IF ib = <<>> THEN NoLine ELSE Head(ib),
         inbuf |-> IF ib = <<>> THEN <<>> ELSE Tail(ib),
         wire |-> SubSeq(wire, k + 1, Len(wire))]

(***************************************************************************)
(* main(), lines 124-143: set-up, first generator command, first autoset.  *)
(***************************************************************************)
\* fg.set_frequency(channel=2, value=5000)
StartFreq == 5000

Setup ==
    /\ pc = "start"
    /\ fgLog' = <<StartFreq>>
    /\ last_period' = FDiv(FromInt(1), FromInt(max_freq))
    /\ ref_freq' = max_freq
    /\ i' = max_freq + step
    /\ pc' = "preset"
    /\ UNCHANGED <<cfg, twin, ret, tx, triggered, freq, ampl, f, caller, q,
                   attempt, ioLog, wire, inbuf, asets, stepLog, err, cause,
                   plotted, rx>>

\* a main() without line 142: no autoset before the sweep
PreSetNoAutoset ==
    /\ pc = "preset"
    /\ fgLog' = Append(fgLog, max_freq)
    /\ caller' = "none"
    /\ pc' = "loop"
    /\ UNCHANGED <<cfg, twin, ret, tx, triggered, i, freq, ampl, f,
                   last_period, q, attempt, ioLog, wire, inbuf, asets,
                   stepLog, err, cause, plotted, ref_freq, rx>>

\* fg.set_frequency(channel=2, value=max_freq), then send_query(s, "aset")
PreSet ==
    /\ pc = "preset"
    /\ fgLog' = Append(fgLog, max_freq)
    /\ caller' = "init"
    /\ pc' = "sq_flush"
    /\ UNCHANGED <<cfg, twin, ret, tx, triggered, i, freq, ampl, f,
                   last_period, q, attempt, ioLog, wire, inbuf, asets,
                   stepLog, err, cause, plotted, ref_freq, rx>>

(***************************************************************************)
(* send_query(s, "aset"), lines 107-120, one action per serial call.       *)
(***************************************************************************)
SqFlush ==
    /\ pc = "sq_flush"
    /\ \E k \in Arrivals :
          /\ inbuf' = <<>>
          /\ wire' = SubSeq(wire, k + 1, Len(wire))
    /\ ioLog' = <<"flush">>
    /\ rx' = NoLine
    /\ pc' = "sq_write"
    /\ UNCHANGED <<cfg, twin, ret, tx, triggered, i, fgLog, freq, ampl, f,
                   last_period, caller, q, attempt, asets, stepLog, err,
                   cause, plotted, ref_freq>>

SqWrite ==
    /\ pc = "sq_write"
    /\ \E r \in ScopeReplies("aset") : wire' = wire \o r
    /\ asets' = asets + 1
    /\ ioLog' = Append(ioLog, "write")
    /\ stepLog' = IF caller = "drift" THEN Append(stepLog, "aset") ELSE stepLog
    /\ pc' = "sq_echo"
    /\ tx' = CmdText("aset") \o <<CR>>
    /\ UNCHANGED <<cfg, twin, ret, triggered, i, fgLog, freq, ampl, f,
                   last_period, caller, q, attempt, inbuf, err, cause,
                   plotted, ref_freq, rx>>

SqEcho ==
    /\ pc = "sq_echo"
    /\ \E k \in Arrivals :
          LET rd == ReadUntil(k)
          IN  /\ inbuf' = rd.inbuf
              /\ rx' = rd.line
              /\ wire' = rd.wire
    /\ ioLog' = Append(ioLog, "read")
    /\ pc' = "sq_resp"
    /\ UNCHANGED <<cfg, twin, ret, tx, triggered, i, fgLog, freq, ampl, f,
                   last_period, caller, q, attempt, asets, stepLog, err,
                   cause, plotted, ref_freq>>

\* a send_query that treats an empty response as a timeout error
SqRespRaises ==
    /\ pc = "sq_resp"
    /\ \E k \in Arrivals :
          LET rd == ReadUntil(k)
          IN  /\ inbuf' = rd.inbuf
              /\ rx' = rd.line
              /\ wire' = rd.wire
              /\ ret' = Strip(rd.line.text)
              /\ IF rd.line.text = <<>>
                 THEN pc' = "aborted" /\ err' = "TimeoutError"
                 ELSE pc' = "aset_sleep" /\ err' = err
    /\ ioLog' = Append(ioLog, "read")
    /\ UNCHANGED <<cfg, twin, tx, triggered, i, fgLog, freq, ampl, f,
                   last_period, caller, q, attempt, asets, stepLog, cause,
                   plotted, ref_freq>>

\* response = serial.read_until(b'\r'); return response.decode().strip()
SqResp ==
    /\ pc = "sq_resp"
    /\ \E k \in Arrivals :
          LET rd == ReadUntil(k)
          IN  /\ inbuf' = rd.inbuf
              /\ rx' = rd.line
              /\ wire' = rd.wire
              /\ ret' = Strip(rd.line.text)
    /\ ioLog' = Append(ioLog, "read")
    /\ pc' = "aset_sleep"
    /\ UNCHANGED <<cfg, twin, tx, triggered, i, fgLog, freq, ampl, f,
                   last_period, caller, q, attempt, asets, stepLog, err,
                   cause, plotted, ref_freq>>

\* 1.0 / f
current_period == FDiv(FromInt(1), FromInt(f))

\* a reference taken from the commanded instead of the measured frequency
NewReferenceCommanded(site) ==
    IF site = "drift" THEN FDiv(FromInt(1), FromInt(i)) ELSE last_period

\* last_period = current_period  # update reference (line 160 only)
NewReference(site) ==
    IF site = "drift" THEN current_period ELSE last_period

\* time.sleep(5) after send_query; in the sweep loop also line 160
AsetSleep ==
    /\ pc = "aset_sleep"
    /\ last_period' = NewReference(caller)
    /\ ref_freq' = IF caller = "drift" THEN f ELSE ref_freq
    /\ caller' = "none"
    /\ pc' = "loop"
    /\ ret' = <<>>
    /\ UNCHANGED <<cfg, twin, tx, triggered, i, fgLog, freq, ampl, f, q,
                   attempt, ioLog, wire, inbuf, asets, stepLog, err, cause,
                   plotted, rx>>

(***************************************************************************)
(* The sweep loop, lines 145-160.                                          *)
(***************************************************************************)
\* a range that also yields its stop value
RangeHasNextInclusive(cur) == cur - step >= min_freq

\* range(max_freq, min_freq, -step): the value after cur, if there is one
RangeHasNext(cur) == cur - step > min_freq

ForNext ==
    /\ pc = "loop"
    /\ IF RangeHasNext(i)
       THEN /\ i' = i - step
            /\ pc' = "set"
       ELSE /\ i' = i
            /\ pc' = "plot"
    /\ UNCHANGED <<cfg, twin, ret, tx, triggered, fgLog, freq, ampl, f,
                   last_period, caller, q, attempt, ioLog, wire, inbuf, asets,
                   stepLog, err, cause, plotted, ref_freq, rx>>

Set ==
    /\ pc = "set"
    /\ fgLog' = Append(fgLog, i)
    /\ stepLog' = <<"set">>
    /\ pc' = "settle"
    /\ UNCHANGED <<cfg, twin, ret, tx, triggered, i, freq, ampl, f,
                   last_period, caller, q, attempt, ioLog, wire, inbuf, asets,
                   err, cause, plotted, ref_freq, rx>>

\* a loop body that queries the amplitude first
SettleThenAmpl ==
    /\ pc = "settle"
    /\ stepLog' = Append(stepLog, "settle")
    /\ pc' = "get_ampl"
    /\ UNCHANGED <<cfg, twin, ret, tx, triggered, i, fgLog, freq, ampl, f,
                   last_period, caller, q, attempt, ioLog, wire, inbuf, asets,
                   err, cause, plotted, ref_freq, rx>>

Settle ==
    /\ pc = "settle"
    /\ stepLog' = Append(stepLog, "settle")
    /\ pc' = "get_freq"
    /\ UNCHANGED <<cfg, twin, ret, tx, triggered, i, fgLog, freq, ampl, f,
                   last_period, caller, q, attempt, ioLog, wire, inbuf, asets,
                   err, cause, plotted, ref_freq, rx>>

(***************************************************************************)
(* get_freq / get_ampl, lines 31-66 and 69-104.  The two functions differ  *)
(* in the command they write; c is "freq" or "ampl".                       *)
(***************************************************************************)
\* a main() that forgets ampl.append(a)
ReturnDropAmpl(c, v, log) ==
    /\ IF c = "freq"
       THEN /\ f' = v
            /\ freq' = Append(freq, v)
            /\ pc' = "get_ampl"
       ELSE /\ f' = f
            /\ freq' = freq
            /\ pc' = "drift"
    /\ ampl' = ampl
    /\ q' = "none"
    /\ ioLog' = log
    /\ UNCHANGED <<attempt, err, cause>>

\* the value is returned to main(), which appends it (lines 149-152)
Return(c, v, log) ==
    /\ IF c = "freq"
       THEN /\ f' = v
            /\ freq' = Append(freq, v)
            /\ ampl' = ampl
            /\ pc' = "get_ampl"
       ELSE /\ f' = f
            /\ freq' = freq
            /\ ampl' = Append(ampl, v)
            /\ pc' = "drift"
    /\ q' = "none"
    /\ ioLog' = log
    /\ UNCHANGED <<attempt, err, cause>>

\* a main() that reports the exception and goes on with the next step
PropagateAndGoOn(exc, why, log) ==
    /\ pc' = "loop"
    /\ err' = exc
    /\ cause' = why
    /\ ioLog' = log
    /\ UNCHANGED <<f, freq, ampl, q, attempt>>

\* an exception leaves main(): the run ends with it
Propagate(exc, why, log) ==
    /\ pc' = "aborted"
    /\ err' = exc
    /\ cause' = why
    /\ ioLog' = log
    /\ UNCHANGED <<f, freq, ampl, q, attempt>>

\* except (TimeoutError, ValueError) as e:
Caught(exc) == exc \in {"TimeoutError", "ValueError"}

\* if attempt < retries:
MoreAttempts(att) == att < retries

\* a handler that raises the RuntimeError without "from e"
ExceptNoCause(exc, log) ==
    IF MoreAttempts(attempt)
    THEN /\ pc' = "q_write"
         /\ attempt' = attempt + 1
         /\ ioLog' = Append(log, "sleep")
         /\ UNCHANGED <<f, freq, ampl, q, err, cause>>
    ELSE Propagate("RuntimeError", "none", log)

\* a handler that sleeps before it gives up, too
ExceptSleepAlways(exc, log) ==
    IF MoreAttempts(attempt)
    THEN /\ pc' = "q_write"
         /\ attempt' = attempt + 1
         /\ ioLog' = Append(log, "sleep")
         /\ UNCHANGED <<f, freq, ampl, q, err, cause>>
    ELSE Propagate("RuntimeError", exc, Append(log, "sleep"))

\* lines 59-64: the handler of the retry loop
Except(exc, log) ==
    IF MoreAttempts(attempt)
    THEN /\ pc' = "q_write"
         /\ attempt' = attempt + 1
         /\ ioLog' = Append(log, "sleep")
         /\ UNCHANGED <<f, freq, ampl, q, err, cause>>
    ELSE Propagate("RuntimeError", exc, log)

\* an exception raised inside the try block
Raise(exc, log) ==
    IF Caught(exc) THEN Except(exc, log) ELSE Propagate(exc, "none", log)

\* for attempt in range(1, retries + 1): ... / return 1.0
QueryCall(c) ==
    /\ pc = IF c = "freq" THEN "get_freq" ELSE "get_ampl"
    /\ stepLog' = Append(stepLog, c)
    /\ rx' = NoLine
    /\ IF 1 < retries + 1
       THEN /\ q' = c
            /\ attempt' = 1
            /\ ioLog' = <<>>
            /\ pc' = "q_write"
            /\ UNCHANGED <<f, freq, ampl, err, cause>>
       ELSE Return(c, 1, <<>>)
    /\ UNCHANGED <<cfg, twin, ret, tx, triggered, i, fgLog, last_period,
                   caller, wire, inbuf, asets, plotted, ref_freq>>

\* serial.write(b"parameter_value? freq\r")
QWrite(c) ==
    /\ pc = "q_write"
    /\ q = c
    /\ \E r \in ScopeReplies(c) : wire' = wire \o r
    /\ ioLog' = Append(ioLog, "write")
    /\ pc' = "q_echo"
    /\ tx' = CmdText(c) \o <<CR>>
    /\ UNCHANGED <<cfg, twin, ret, triggered, i, fgLog, freq, ampl, f,
                   last_period, caller, q, attempt, inbuf, asets, stepLog,
                   err, cause, plotted, ref_freq, rx>>

\* echo = serial.read_until(b'\r'); if not echo: raise TimeoutError
QEcho(c) ==
    /\ pc = "q_echo"
    /\ q = c
    /\ \E k \in Arrivals :
          LET rd == ReadUntil(k)
              log == Append(ioLog, "read")
          IN  /\ inbuf' = rd.inbuf
              /\ rx' = rd.line
              /\ wire' = rd.wire
              /\ IF rd.line.text = <<>>
                 THEN Raise("TimeoutError", log)
                 ELSE /\ pc' = "q_resp"
                      /\ ioLog' = log
                      /\ UNCHANGED <<f, freq, ampl, q, attempt, err, cause>>
    /\ UNCHANGED <<cfg, twin, ret, tx, triggered, i, fgLog, last_period,
                   caller, asets, stepLog, plotted, ref_freq>>

\* response = serial.read_until(b'\r'); if not response: raise TimeoutError
\* return parse_frequency(response.decode().strip())
QResp(c) ==
    /\ pc = "q_resp"
    /\ q = c
    /\ \E k \in Arrivals :
          LET rd == ReadUntil(k)
              log == Append(ioLog, "read")
              res == parse_frequency(Strip(rd.line.text))
          IN  /\ inbuf' = rd.inbuf
              /\ rx' = rd.line
              /\ wire' = rd.wire
              /\ IF rd.line.text = <<>> THEN Raise("TimeoutError", log)
                 ELSE IF res.kind = "ok" THEN Return(c, res.val, log)
                 ELSE Raise(res.kind, log)
    /\ UNCHANGED <<cfg, twin, ret, tx, triggered, i, fgLog, last_period,
                   caller, asets, stepLog, plotted, ref_freq>>

(***************************************************************************)
(* Drift check, lines 154-157, and the plot, lines 162-167.                *)
(***************************************************************************)
\* threshold = 0.4: the double nearest to 2/5
threshold == FDiv(FromInt(2), FromInt(5))

\* abs(current_period - last_period) / last_period
period_change == FDiv(FAbs(FSub(current_period, last_period)), last_period)

\* if period_change >= threshold:
DriftTriggers == FGeq(period_change, threshold)

Drift ==
    /\ pc = "drift"
    /\ stepLog' = Append(stepLog, "drift")
    /\ IF f = 0
       THEN /\ pc' = "aborted"
            /\ err' = "ZeroDivisionError"
            /\ caller' = caller
       ELSE /\ err' = err
            /\ IF DriftTriggers
               THEN /\ pc' = "sq_flush"
                    /\ caller' = "drift"
               ELSE /\ pc' = "loop"
                    /\ caller' = caller
    /\ triggered' =
          IF f # 0 /\ DriftTriggers THEN triggered + 1 ELSE triggered
    /\ UNCHANGED <<cfg, twin, ret, tx, i, fgLog, freq, ampl, f, last_period,
                   q, attempt, ioLog, wire, inbuf, asets, cause, plotted,
                   ref_freq, rx>>

Plot ==
    /\ pc = "plot"
    /\ plotted' = <<freq, ampl>>
    /\ pc' = "done"
    /\ UNCHANGED <<cfg, twin, ret, tx, triggered, i, fgLog, freq, ampl, f,
                   last_period, caller, q, attempt, ioLog, wire, inbuf, asets,
                   stepLog, err, cause, ref_freq, rx>>

Next ==
    \/ Setup
    \/ PreSet
    \/ SqFlush
    \/ SqWrite
    \/ SqEcho
    \/ SqResp
    \/ AsetSleep
    \/ ForNext
    \/ Set
    \/ Settle
    \/ QueryCall("freq")
    \/ QueryCall("ampl")
    \/ QWrite("freq")
    \/ QWrite("ampl")
    \/ QEcho("freq")
    \/ QEcho("ampl")
    \/ QResp("freq")
    \/ QResp("ampl")
    \/ Drift
    \/ Plot

Spec == Init /\ [][Next]_vars

\* main() is sequential code whose blocking calls all return (a read after
\* the port timeout at the latest, a sleep after its delay): a step that
\* can be taken is taken
FairSpec == Spec /\ WF_vars(Next)

(***************************************************************************)
(* get_freq (lines 31-66) and get_ampl (lines 69-104) side by side.  Each  *)
(* function is transcribed on its own from its own lines; both take their  *)
(* read results from one feed, the k-th read_until of either call          *)
(* returning the k-th entry, or nothing once the feed is used up.          *)
(***************************************************************************)
MaxFeed == 4

\* what a read_until may return: nothing, a response with a value, one
\* without a numeric word, one without a comma
PairReads == {<<>>, RespValue("freq", 5000), RespNoWord("freq"), RespGarbage}

Feeds == UNION {[1..n -> PairReads] : n \in 0..MaxFeed}

PairConfigs ==
    {[sweep |-> ShortSweep, retries |-> r, scope |-> "free"] :
        r \in -1..MaxRetries}

PairInit ==
    /\ cfg \in PairConfigs
    /\ MainStart
    /\ twin \in {[feed |-> fd, turn |-> "freq", fq |-> Call("for"),
                  am |-> Call("for")] : fd \in Feeds}

\* serial.read_until(b'\r') number n of a call
FeedRead(n) == IF n <= Len(twin.feed) THEN twin.feed[n] ELSE <<>>

Wrote(bytes) == [op |-> "write", bytes |-> bytes]

DidRead == [op |-> "read", bytes |-> <<>>]

Slept == [op |-> "sleep", bytes |-> <<>>]

Returned(c, v) ==
    [c EXCEPT !.pc = "done",
              !.out = [kind |-> "value", val |-> v, exc |-> "none",
                       cause |-> "none"]]

Raised(c, e, why) ==
    [c EXCEPT !.pc = "done",
              !.out = [kind |-> "error", val |-> 0, exc |-> e, cause |-> why]]

\* ---- get_freq ----
\* line 59: except (TimeoutError, ValueError) as e:
FreqCaught(exc) == exc \in {"TimeoutError", "ValueError"}

\* lines 59-64
FreqExcept(c, exc) ==
    IF ~FreqCaught(exc) THEN Raised(c, exc, "none")
    ELSE IF c.attempt < retries
         THEN [c EXCEPT !.pc = "for", !.log = Append(c.log, Slept)]
         ELSE Raised(c, "RuntimeError", exc)

\* line 39: for attempt in range(1, retries + 1); line 66: return 1.0
FreqFor(c) ==
    IF c.attempt + 1 < retries + 1
    THEN [c EXCEPT !.pc = "write", !.attempt = c.attempt + 1]
    ELSE Returned(c, 1)

\* line 42: serial.write(b"parameter_value? freq\r")
FreqWrite(c) ==
    [c EXCEPT !.pc = "echo", !.log = Append(c.log, Wrote(CmdFreq \o <<CR>>))]

\* lines 45-47
FreqEcho(c) ==
    LET d == [c EXCEPT !.pos = c.pos + 1, !.log = Append(c.log, DidRead)]
    IN  IF FeedRead(d.pos) = <<>> THEN FreqExcept(d, "TimeoutError")
        ELSE [d EXCEPT !.pc = "resp"]

\* lines 51-57
FreqResp(c) ==
    LET d == [c EXCEPT !.pos = c.pos + 1, !.log = Append(c.log, DidRead)]
        res == parse_frequency(Strip(FeedRead(d.pos)))
    IN  IF FeedRead(d.pos) = <<>> THEN FreqExcept(d, "TimeoutError")
        ELSE IF res.kind = "ok" THEN Returned(d, res.val)
        ELSE FreqExcept(d, res.kind)

\* ---- get_ampl ----
\* an amplitude query whose handler also catches IndexError
AmplCaughtAlsoIndexError(exc) ==
    exc \in {"TimeoutError", "ValueError", "IndexError"}

\* line 97: except (TimeoutError, ValueError) as e:
AmplCaught(exc) == exc \in {"TimeoutError", "ValueError"}

\* lines 97-102
AmplExcept(c, exc) ==
    IF ~AmplCaught(exc) THEN Raised(c, exc, "none")
    ELSE IF c.attempt < retries
         THEN [c EXCEPT !.pc = "for", !.log = Append(c.log, Slept)]
         ELSE Raised(c, "RuntimeError", exc)

\* line 77: for attempt in range(1, retries + 1); line 104: return 1.0
AmplFor(c) ==
    IF c.attempt + 1 < retries + 1
    THEN [c EXCEPT !.pc = "write", !.attempt = c.attempt + 1]
    ELSE Returned(c, 1)

\* line 80: serial.write(b"parameter_value? ampl\r")
AmplWrite(c) ==
    [c EXCEPT !.pc = "echo", !.log = Append(c.log, Wrote(CmdAmpl \o <<CR>>))]

\* lines 83-85
AmplEcho(c) ==
    LET d == [c EXCEPT !.pos = c.pos + 1, !.log = Append(c.log, DidRead)]
    IN  IF FeedRead(d.pos) = <<>> THEN AmplExcept(d, "TimeoutError")
        ELSE [d EXCEPT !.pc = "resp"]

\* lines 89-95
AmplResp(c) ==
    LET d == [c EXCEPT !.pos = c.pos + 1, !.log = Append(c.log, DidRead)]
        res == parse_frequency(Strip(FeedRead(d.pos)))
    IN  IF FeedRead(d.pos) = <<>> THEN AmplExcept(d, "TimeoutError")
        ELSE IF res.kind = "ok" THEN Returned(d, res.val)
        ELSE AmplExcept(d, res.kind)

\* the two calls take their steps in turn while both are running
FreqTurn(c) ==
    /\ twin.turn = "freq"
    /\ twin' = [twin EXCEPT !.fq = c,
                   !.turn = IF twin.am.pc = "done" THEN "freq" ELSE "ampl"]
    /\ UNCHANGED <<cfg, pc, i, fgLog, freq, ampl, f, last_period, ref_freq,
                   caller, q, attempt, ioLog, rx, wire, inbuf, asets, stepLog,
                   err, cause, plotted, triggered, tx, ret>>

AmplTurn(c) ==
    /\ twin.turn = "ampl"
    /\ twin' = [twin EXCEPT !.am = c,
                   !.turn = IF twin.fq.pc = "done" THEN "ampl" ELSE "freq"]
    /\ UNCHANGED <<cfg, pc, i, fgLog, freq, ampl, f, last_period, ref_freq,
                   caller, q, attempt, ioLog, rx, wire, inbuf, asets, stepLog,
                   err, cause, plotted, triggered, tx, ret>>

GetFreqFor == twin.fq.pc = "for" /\ FreqTurn(FreqFor(twin.fq))

GetFreqWrite == twin.fq.pc = "write" /\ FreqTurn(FreqWrite(twin.fq))

GetFreqEcho == twin.fq.pc = "echo" /\ FreqTurn(FreqEcho(twin.fq))

GetFreqResp == twin.fq.pc = "resp" /\ FreqTurn(FreqResp(twin.fq))

GetAmplFor == twin.am.pc = "for" /\ AmplTurn(AmplFor(twin.am))

GetAmplWrite == twin.am.pc = "write" /\ AmplTurn(AmplWrite(twin.am))

GetAmplEcho == twin.am.pc = "echo" /\ AmplTurn(AmplEcho(twin.am))

GetAmplResp == twin.am.pc = "resp" /\ AmplTurn(AmplResp(twin.am))

PairNext ==
    \/ GetFreqFor
    \/ GetFreqWrite
    \/ GetFreqEcho
    \/ GetFreqResp
    \/ GetAmplFor
    \/ GetAmplWrite
    \/ GetAmplEcho
    \/ GetAmplResp

PairSpec == PairInit /\ [][PairNext]_vars

(***************************************************************************)
(* Properties.                                                             *)
(***************************************************************************)
MainRun == cfg.sweep = MainSweep

\* the frequencies commanded inside the sweep loop (after lines 128, 141)
LoopCommands == SubSeq(fgLog, 3, Len(fgLog))

\* number of serial.write calls of the current query call
RECURSIVE Count(_, _)
Count(log, x) ==
    IF log = <<>> THEN 0
    ELSE (IF Head(log) = x THEN 1 ELSE 0) + Count(Tail(log), x)

\* C1: with R = retries >= 1 and F = attempt - 1 failed attempts so far, an
\* attempt that fails (empty echo, empty response, or a response that does
\* not parse) is followed by attempt F + 2 when F + 1 < R and by the
\* RuntimeError after exactly R writes when F + 1 = R; an attempt that
\* succeeds returns the value parsed from its response and writes no more.
C1_RetryContract ==
    [][(pc \in {"q_echo", "q_resp"} /\ retries >= 1) =>
        LET res == parse_frequency(Strip(rx'.text))
            failed == rx'.text = <<>> \/ (pc = "q_resp" /\ res.kind # "ok")
        IN  IF failed
            THEN IF attempt < retries
                 THEN pc' = "q_write" /\ attempt' = attempt + 1
                 ELSE /\ pc' = "aborted"
                      /\ err' = "RuntimeError"
                      /\ Count(ioLog', "write") = retries
            ELSE pc = "q_resp" =>
                    /\ q' = "none"
                    /\ Count(ioLog', "write") = attempt
                    /\ IF q = "freq" THEN freq' = Append(freq, res.val)
                                     ELSE ampl' = Append(ampl, res.val)
      ]_vars

\* C2 as claimed: in the main sweep the loop commands 9900, 9800, ..., 1000
C2_Original ==
    MainRun =>
        /\ \A k \in 1..Len(LoopCommands) : LoopCommands[k] = 9900 - 100 * (k - 1)
        /\ pc = "done" => LoopCommands[Len(LoopCommands)] = 1000

\* C2 amended: in the main sweep the loop commands 10000, 9900, ..., 1100,
\* strictly decreasing, first 10000, last 1100
C2_StepFrequencies ==
    MainRun =>
        /\ \A k \in 1..Len(LoopCommands) : LoopCommands[k] = 10000 - 100 * (k - 1)
        /\ \A k \in 2..Len(LoopCommands) : LoopCommands[k] < LoopCommands[k - 1]
        /\ pc = "done" => /\ Len(LoopCommands) = 90
                          /\ LoopCommands[90] = 1100

C2_Witness ==
    MainRun /\ pc = "done" /\ LoopCommands[1] = 10000 /\ LoopCommands[90] = 1100

C4_EqualLengths ==
    (\/ pc \in {"loop", "set", "plot", "done"}
     \/ (pc = "aborted" /\ err = "RuntimeError"))
        => Len(freq) = Len(ampl)

Abs(x) == IF x < 0 THEN 0 - x ELSE x

\* |1/f - 1/r| / (1/r) >= 0.4 for positive integers r and f, in exact terms
ExactDrift(r, g) == 5 * Abs(r - g) >= 2 * g

\* C5: in a step with reference period 1/ref_freq and measured frequency f,
\* autoset is re-triggered if and only if |1/f - P| / P >= 0.4; a value
\* exactly at the threshold triggers
C5_DriftRule ==
    [][(pc = "drift" /\ f > 0 /\ ref_freq > 0) =>
        (pc' = "sq_flush" <=> ExactDrift(ref_freq, f))]_vars

\* C6: the reference period is 1/max_freq after set-up; afterwards it
\* changes only after the autoset of a step whose drift check triggered,
\* to the period 1.0/f of that step's measured frequency; a step whose
\* relative change is below the threshold goes on to the next step with
\* the reference period unchanged
C6_ReferencePeriod ==
    [][/\ pc = "start" => last_period' = FDiv(FromInt(1), FromInt(max_freq))
       /\ (pc # "start" /\ last_period' # last_period) =>
             /\ pc = "aset_sleep" /\ caller = "drift"
             /\ stepLog[Len(stepLog)] = "aset"
             /\ DriftTriggers
             /\ f = freq[Len(freq)]
             /\ last_period' = FDiv(FromInt(1), FromInt(f))
       /\ (pc = "drift" /\ f > 0 /\ ref_freq > 0 /\ ~ExactDrift(ref_freq, f)) =>
             pc' = "loop" /\ last_period' = last_period
      ]_vars

\* a step re-triggers autoset although its frequency is within the
\* threshold of the previous step's: the reference is the last autoset's
C6_Witness ==
    /\ pc = "loop" /\ stepLog = <<"set", "settle", "freq", "ampl", "drift", "aset">>
    /\ Len(freq) >= 2
    /\ f > 0 /\ freq[Len(freq) - 1] > 0
    /\ ~ExactDrift(freq[Len(freq) - 1], f)
    /\ last_period = FDiv(FromInt(1), FromInt(f))

\* C7: every value in the frequency list is strictly positive
C7_PositiveFrequencies == \A k \in 1..Len(freq) : freq[k] > 0

\* C8: a run that ends inside get_freq / get_ampl ends with the
\* exhausted-retries RuntimeError, raised on the last of `retries` attempts
C8_FailuresCaught ==
    (pc = "aborted" /\ q # "none") =>
        /\ err = "RuntimeError"
        /\ attempt = retries
        /\ Count(ioLog, "write") = retries

\* C9: once a query has raised the exhausted-retries error the run is over:
\* no generator command, serial operation, autoset or list append follows
\* and nothing is plotted
C9_AbortIsFinal ==
    [][/\ err' = "RuntimeError" => (pc' = "aborted" /\ plotted' = <<>>)
       /\ err = "RuntimeError" =>
             /\ fgLog' = fgLog /\ asets' = asets /\ ioLog' = ioLog
             /\ wire' = wire /\ inbuf' = inbuf
             /\ freq' = freq /\ ampl' = ampl /\ plotted' = plotted
      ]_vars

C9_Witness ==
    /\ err = "RuntimeError" /\ pc = "aborted"
    /\ MainRun /\ Len(freq) >= 1 /\ q = "ampl"

StepOrder == <<"set", "settle", "freq", "ampl", "drift", "aset">>

IsPrefix(a, b) == Len(a) <= Len(b) /\ a = SubSeq(b, 1, Len(a))

\* C10: the events of a step occur in the order set_frequency, settle,
\* frequency query, amplitude query, drift check, optional autoset; the
\* amplitude query starts after the frequency query of its step returned;
\* set_frequency of the next step is issued only when all of them are over
C10_StepOrder ==
    [][/\ IsPrefix(stepLog', StepOrder)
       /\ (q' = "ampl" /\ q # "ampl") =>
             Len(freq') = Len(ampl') + 1 /\ Len(freq') = Len(LoopCommands')
       /\ (pc = "set" /\ fgLog' # fgLog) =>
             /\ stepLog \in {<<>>, SubSeq(StepOrder, 1, 5), StepOrder}
             /\ q = "none" /\ caller = "none"
             /\ Len(freq) = Len(LoopCommands) /\ Len(ampl) = Len(LoopCommands)
      ]_vars

C10_Witness ==
    pc = "set" /\ stepLog = StepOrder /\ Len(LoopCommands) >= 1

\* C11: the loop commands max_freq first, then always the previous value
\* minus step, every value strictly above min_freq, never min_freq itself,
\* and it stops only when the next value would not be above min_freq
C11_RangeExclusive ==
    /\ Len(LoopCommands) >= 1 => LoopCommands[1] = max_freq
    /\ \A k \in 2..Len(LoopCommands) : LoopCommands[k] = LoopCommands[k - 1] - step
    /\ \A k \in 1..Len(LoopCommands) :
          LoopCommands[k] > min_freq /\ LoopCommands[k] # min_freq
    /\ pc \in {"plot", "done"} =>
          /\ Len(LoopCommands) >= 1
          /\ LoopCommands[Len(LoopCommands)] - step <= min_freq

\* the short sweep has ended after commanding 7000 and 6000, not 5000
C11_Witness ==
    /\ pc = "done" /\ ~MainRun
    /\ LoopCommands[Len(LoopCommands)] - step = min_freq

\* C12: a value returned by get_freq/get_ampl is parsed from the response
\* to the command written in the same attempt of the same call, read after
\* that command's own echo; a line of an earlier attempt or call is never
\* taken as the response
C12_OwnResponse ==
    [][pc = "q_resp" /\ Len(freq') + Len(ampl') > Len(freq) + Len(ampl) =>
          /\ rx.part = "echo" /\ rx.cmd = q
          /\ rx.call = Len(freq) + Len(ampl) /\ rx.att = attempt
          /\ rx'.part = "resp" /\ rx'.cmd = q
          /\ rx'.call = Len(freq) + Len(ampl) /\ rx'.att = attempt]_vars

\* C13: when the first measurement query starts, the generator was last
\* commanded to max_freq and exactly one autoset has been sent, after the
\* pre-sweep max_freq command; a completed sweep has sent one autoset plus
\* one for every step whose drift check fired
C13_AutosetCount ==
    /\ asets >= 1 => Len(fgLog) >= 2 /\ fgLog[2] = max_freq
    /\ freq = <<>> /\ pc \in {"get_freq", "q_write", "q_echo", "q_resp"} =>
          /\ fgLog[Len(fgLog)] = max_freq
          /\ asets = 1
          /\ triggered = 0
    /\ pc \in {"loop", "set", "settle", "get_freq", "get_ampl", "drift",
               "plot", "done"} => asets = 1 + triggered
    /\ asets <= 1 + triggered

\* a completed sweep in which a step's drift check fired
C13_Witness == pc = "done" /\ triggered >= 1 /\ asets = 1 + triggered

\* the log in ioLog is that of a get_freq/get_ampl call that has written
InQueryLog == ioLog # <<>> /\ ioLog[1] = "write"

\* C14: a query call that has made k attempts has slept exactly k - 1 times,
\* each time right after the reads of a failed attempt and right before the
\* next write; it does not sleep after the final failure or after a success
C14_DelaysBetweenAttempts ==
    InQueryLog =>
       /\ Count(ioLog, "write") =
             IF pc = "q_write" THEN attempt - 1 ELSE attempt
       /\ Count(ioLog, "sleep") = attempt - 1
       /\ \A k \in 1..Len(ioLog) : ioLog[k] = "sleep" =>
             /\ k > 1 /\ ioLog[k - 1] = "read"
             /\ IF k < Len(ioLog) THEN ioLog[k + 1] = "write"
                ELSE pc = "q_write"
       /\ pc # "q_write" => ioLog[Len(ioLog)] # "sleep"
       /\ q = "none" => ioLog[Len(ioLog)] = "read"

\* a call has returned a value on its third attempt, after two delays
C14_Witness ==
    /\ InQueryLog /\ pc = "get_ampl" /\ err = "none"
    /\ attempt = 3 /\ Count(ioLog, "sleep") = 2

\* the failure of the attempt whose last read returned rx
LastFailure ==
    IF rx.text = <<>> THEN "TimeoutError"
    ELSE parse_frequency(Strip(rx.text)).kind

\* C15: the RuntimeError of exhausted retries is raised on attempt number
\* retries and its cause is the TimeoutError or ValueError of that attempt,
\* not the failure of an earlier attempt
C15_CauseIsLastFailure ==
    err = "RuntimeError" =>
       /\ attempt = retries
       /\ cause \in {"TimeoutError", "ValueError"}
       /\ cause = LastFailure

\* retries exhausted by a malformed response after an attempt that timed
\* out on its echo
C15_Witness ==
    /\ err = "RuntimeError" /\ cause = "ValueError" /\ retries = 2
    /\ ioLog = <<"write", "read", "sleep", "write", "read", "read">>

\* the serial calls of one send_query, in program order
SendQueryOrder == <<"flush", "write", "read", "read">>

\* C16: send_query flushes the input, writes the command and CR, reads the
\* echo and reads the response, once each and in this order; it raises
\* nothing and ends after the second read whatever the reads returned,
\* returning the trimmed response line, the empty string for an empty one
C16_SendQueryOnce ==
    /\ pc = "sq_write" => ioLog = SubSeq(SendQueryOrder, 1, 1)
    /\ pc = "sq_echo" =>
          /\ ioLog = SubSeq(SendQueryOrder, 1, 2)
          /\ tx = CmdAset \o <<CR>>
    /\ pc = "sq_resp" => ioLog = SubSeq(SendQueryOrder, 1, 3)
    /\ pc = "aset_sleep" =>
          /\ ioLog = SendQueryOrder
          /\ tx = CmdAset \o <<CR>>
          /\ ret = Strip(rx.text)
          /\ rx.text = <<>> => ret = <<>>
          /\ ret # <<>> =>
                ret[1] \notin WhiteSpace /\ ret[Len(ret)] \notin WhiteSpace
    /\ caller # "none" => err = "none" /\ pc # "aborted"

\* a send_query of the sweep loop has returned the empty string after its
\* reads found nothing
C16_Witness ==
    /\ pc = "aset_sleep" /\ caller = "drift" /\ rx = NoLine /\ ret = <<>>
    /\ inbuf = <<>> /\ wire = <<>>

\* the kinds of the serial calls and sleeps in a log, without the bytes
RECURSIVE Shape(_)
Shape(log) == IF log = <<>> THEN <<>> ELSE <<Head(log).op>> \o Shape(Tail(log))

\* every write in the log wrote exactly these bytes
WritesOnly(log, bytes) ==
    \A k \in 1..Len(log) : log[k].op = "write" => log[k].bytes = bytes

\* C17: fed the same read results with the same retries, get_freq and
\* get_ampl make the same sequence of writes, reads and sleeps, get_freq
\* writing only the freq command and get_ampl only the ampl command, and
\* they end with the same value or the same error with the same cause
C17_ProtocolIdentical ==
    /\ WritesOnly(twin.fq.log, CmdFreq \o <<CR>>)
    /\ WritesOnly(twin.am.log, CmdAmpl \o <<CR>>)
    /\ twin.turn = "freq" /\ twin.am.pc # "done" =>
          /\ Shape(twin.fq.log) = Shape(twin.am.log)
          /\ twin.fq.pc = twin.am.pc
          /\ twin.fq.attempt = twin.am.attempt
    /\ twin.fq.pc = "done" /\ twin.am.pc = "done" =>
          /\ Shape(twin.fq.log) = Shape(twin.am.log)
          /\ twin.fq.pos = twin.am.pos
          /\ twin.fq.out = twin.am.out

\* both calls have returned the same value on their second attempt, after
\* the same serial calls but different command bytes
C17_Witness ==
    /\ twin.fq.pc = "done" /\ twin.am.pc = "done"
    /\ twin.fq.out.kind = "value" /\ twin.fq.out.val = 5000
    /\ twin.am.out = twin.fq.out
    /\ twin.fq.attempt = 2
    /\ twin.fq.log # twin.am.log

\* what one sweep step and one query call have used so far
StepResources ==
    /\ Count(stepLog, "set") <= 1
    /\ Count(stepLog, "aset") <= 1
    /\ Count(stepLog, "freq") <= 1
    /\ Count(stepLog, "ampl") <= 1
    /\ InQueryLog => Count(ioLog, "write") <= retries
    /\ asets <= 1 + Len(LoopCommands)

\* every run ends, with the plot or with an exception out of main()
EveryRunEnds == <>(pc \in {"done", "aborted"}) /\ []StepResources

\* C18: every run ends either complete, the data handed to the plot, or
\* aborted by the error of exhausted retries, and a step uses at most one
\* set_frequency, retries attempts per query and one autoset
C18_Terminates ==
    /\ <>(\/ pc = "done" /\ plotted = <<freq, ampl>>
          \/ pc = "aborted" /\ err = "RuntimeError")
    /\ []StepResources

\* the value the step just taken has appended to freq or to ampl
Appended == IF Len(freq') > Len(freq) THEN freq'[Len(freq')] ELSE ampl'[Len(ampl')]

\* C19: whatever retries is, a value comes back from get_freq/get_ampl only
\* as the parse of a response line read in that call after at least one
\* write of the command; the return 1.0 after the loop is never taken
C19_NoFallback ==
    [][Len(freq') + Len(ampl') > Len(freq) + Len(ampl) =>
          /\ pc = "q_resp"
          /\ Count(ioLog', "write") >= 1
          /\ rx'.text # <<>>
          /\ parse_frequency(Strip(rx'.text)) = ParseOk(Appended)]_vars

====
